---- MODULE Spec2Model ----
(***************************************************************************)
(* DocuQuery-AI backend: the retrieval-augmented question-answering        *)
(* pipeline of backend/utils.py and the request handlers of                *)
(* backend/main.py that own the in-memory embedding cache.                 *)
(*                                                                         *)
(* Texts are sequences of one-character strings, so that sentence          *)
(* splitting, word counting and joining are computed on characters as the  *)
(* Python code computes them.                                              *)
(***************************************************************************)
EXTENDS Integers, Sequences, FiniteSets, TLC

VARIABLES
    context,          \* chunk_context: the argument text
    max_chunk_size,   \* chunk_context: the argument limit
    chunks,           \* chunk_context: the returned list
    chunk_pc,         \* "call" before chunk_context ran, "ret" after
    question,         \* retrieve_relevant_chunks: the question text
    r_chunks,         \* retrieve_relevant_chunks: the chunks argument
    r_embeddings,     \* retrieve_relevant_chunks: the embeddings argument
    top_k,            \* retrieve_relevant_chunks: the top_k argument
    top_indices,      \* top_results.indices
    relevant_chunks,  \* the returned list
    r_pc,             \* "call", then "ret" (returned) or "raised"
    pp_raw,           \* post_process_answer: the argument
    pp_answer,        \* post_process_answer: the local variable answer
    pp_pc,            \* the pipeline step about to run, "ret" or "except"
    pp_result,        \* what post_process_answer returned
    g_chunks,         \* generate_fluent_answer: the relevant_chunks argument
    g_pc,             \* where the innermost generate_fluent_answer frame is
    g_depth,          \* number of nested generate_fluent_answer frames
    g_answer,         \* the local variable answer
    g_result,         \* what the outermost call returned
    tokenizer_calls,  \* calls of tokenizer.encode / tokenizer.decode
    model_calls,      \* calls of t5_model.generate
    documents,        \* the documents table: id -> content of the stored rows
    document_embeddings,  \* the cache: id -> [chunks, embeddings]
    files,            \* the uploads directory: the stored rows' files, by id
    lastOp,           \* the last request handled and what it did
    ever_deleted,     \* ids that a delete_document request has removed
    requests,         \* the requests in flight, one coroutine per slot
    running           \* the coroutine the event loop is executing, or "none"

chunkVars == <<context, max_chunk_size, chunks, chunk_pc>>
retrVars == <<question, r_chunks, r_embeddings, top_k, top_indices,
              relevant_chunks, r_pc>>
postVars == <<pp_raw, pp_answer, pp_pc, pp_result>>
genVars == <<g_chunks, g_pc, g_depth, g_answer, g_result, tokenizer_calls,
             model_calls>>
appVars == <<documents, document_embeddings, files, lastOp, ever_deleted>>
loopVars == <<requests, running>>
vars == <<chunkVars, retrVars, postVars, genVars, appVars, loopVars>>

-----------------------------------------------------------------------------
(* Bounds of the model *)

MaxTextLen == 7        \* longest enumerated input text, in characters
MaxChunkSize == 3      \* largest enumerated max_chunk_size
MaxChunks == 3         \* longest enumerated chunk list given to retrieval
MaxTopK == 3           \* largest enumerated top_k
RecursionLimit == 4    \* frames the interpreter's call stack has room for
MaxDocs == 2           \* largest document id the table hands out

-----------------------------------------------------------------------------
(* The parts of the state a specification does not exercise stay idle *)

ChunkIdle ==
    /\ context = <<>>
    /\ max_chunk_size = 0
    /\ chunks = <<>>
    /\ chunk_pc = "idle"

RetrIdle ==
    /\ question = <<>>
    /\ r_chunks = <<>>
    /\ r_embeddings = [ndim |-> 2, rows |-> <<>>]
    /\ top_k = 0
    /\ top_indices = <<>>
    /\ relevant_chunks = <<>>
    /\ r_pc = "idle"

PostIdle ==
    /\ pp_raw = <<>>
    /\ pp_answer = <<>>
    /\ pp_pc = "idle"
    /\ pp_result = <<>>

NoResult == [apology |-> "", answer |-> <<>>]

GenIdle ==
    /\ g_chunks = <<>>
    /\ g_pc = "idle"
    /\ g_depth = 0
    /\ g_answer = <<>>
    /\ g_result = NoResult
    /\ tokenizer_calls = 0
    /\ model_calls = 0

NoOp ==
    [op |-> "none", id |-> 0, status |-> 0, cached_before |-> FALSE,
     embedded |-> 0, used |-> <<>>, relevant |-> <<>>, answer |-> NoResult,
     confidence |-> "", extractions |-> 0]

\* the connections a client can have open at a time
Slots == {"r1", "r2"}

\* a slot without a request
FreeSlot ==
    [op |-> "none", id |-> 0, pc |-> "free", stored |-> FALSE,
     cached |-> FALSE, content |-> <<>>, chunks |-> <<>>,
     embeddings |-> [ndim |-> 2, rows |-> <<>>], embedded |-> 0, status |-> 0]

LoopIdle ==
    /\ requests = [s \in Slots |-> FreeSlot]
    /\ running = "none"

AppIdle ==
    /\ documents = <<>>
    /\ document_embeddings = <<>>
    /\ files = {}
    /\ lastOp = NoOp
    /\ ever_deleted = {}

-----------------------------------------------------------------------------
(* Characters *)

\* [.!?] of the sentence boundary rule
Punct == {".", "!", "?"}

\* what \s and str.split() treat as whitespace
Whitespace == {" ", "\t", "\n"}

\* the characters texts are enumerated over
Alphabet == {"a", "b", ".", " "}

Texts == UNION {[1..n -> Alphabet] : n \in 0..MaxTextLen}

Min(a, b) == IF a < b THEN a ELSE b

-----------------------------------------------------------------------------
(* str.split(), ' '.join, re.split *)

\* len(s.split()): the number of maximal runs of non-whitespace characters
WordCount(s) ==
    Cardinality({i \in 1..Len(s) :
        s[i] \notin Whitespace /\ (i = 1 \/ s[i-1] \in Whitespace)})

\* ' '.join(list)
RECURSIVE Join(_)
Join(list) ==
    IF list = <<>> THEN <<>>
    ELSE IF Len(list) = 1 THEN list[1]
    ELSE list[1] \o <<" ">> \o Join(Tail(list))

\* positions where (?<=[.!?])\s+ can start matching
BreakStarts(s) ==
    {i \in 2..Len(s) : s[i-1] \in Punct /\ s[i] \in Whitespace}

\* \s+ is greedy: the last position of the whitespace run that starts at i
RunEnd(s, i) ==
    CHOOSE j \in i..Len(s) :
        /\ \A k \in i..j : s[k] \in Whitespace
        /\ (j = Len(s) \/ s[j+1] \notin Whitespace)

\* re.split(r'(?<=[.!?])\s+', s) from position start on
RECURSIVE SplitFrom(_, _)
SplitFrom(s, start) ==
    LET later == {i \in BreakStarts(s) : i >= start}
    IN  IF later = {} THEN <<SubSeq(s, start, Len(s))>>
        ELSE LET b == CHOOSE i \in later : \A j \in later : i <= j
             IN  <<SubSeq(s, start, b - 1)>> \o SplitFrom(s, RunEnd(s, b) + 1)

SplitSentences(s) == SplitFrom(s, 1)

-----------------------------------------------------------------------------
(* chunk_context *)

\* (a variant that forgets the sentence about to be added)
OverflowsIgnoringSentence(current_length, sentence_length, limit) ==
    current_length > limit

\* if current_length + sentence_length > max_chunk_size
Overflows(current_length, sentence_length, limit) ==
    current_length + sentence_length > limit

\* (a variant that loses the chunk it closes)
FlushDropping(acc, current_chunk) == acc

\* if current_chunk: chunks.append(' '.join(current_chunk))
Flush(acc, current_chunk) ==
    IF current_chunk # <<>> THEN Append(acc, Join(current_chunk)) ELSE acc

\* the for loop over sentences, then the final flush
RECURSIVE ChunkLoop(_, _, _, _, _, _)
ChunkLoop(sentences, i, acc, current_chunk, current_length, limit) ==
    IF i > Len(sentences) THEN Flush(acc, current_chunk)
    ELSE LET sentence == sentences[i]
             sentence_length == WordCount(sentence)
         IN  IF Overflows(current_length, sentence_length, limit)
             THEN ChunkLoop(sentences, i + 1, Flush(acc, current_chunk),
                            <<sentence>>, sentence_length, limit)
             ELSE ChunkLoop(sentences, i + 1, acc,
                            Append(current_chunk, sentence),
                            current_length + sentence_length, limit)

chunk_context(text, limit) ==
    ChunkLoop(SplitSentences(text), 1, <<>>, <<>>, 0, limit)

-----------------------------------------------------------------------------
(* Embeddings and retrieve_relevant_chunks *)

Range(s) == {s[i] : i \in 1..Len(s)}

\* embedding_model.encode(text): a fixed, deterministic map from a text to a
\* vector.  The stand-in has two non-negative components (does the text hold
\* an "a", does it hold a "b"), so different texts can share a vector.
Embed(text) ==
    <<IF "a" \in Range(text) THEN 1 ELSE 0,
      IF "b" \in Range(text) THEN 1 ELSE 0>>

\* (a variant whose rows come out in reverse order)
EmbeddingsReversed(list) ==
    [ndim |-> IF list = <<>> THEN 1 ELSE 2,
     rows |-> [i \in 1..Len(list) |-> Embed(list[Len(list) + 1 - i])]]

\* embedding_model.encode(chunks, convert_to_tensor=True): one row per chunk,
\* in the order of the input; a 2-D tensor, except that encoding the empty
\* list gives the 1-D empty tensor torch.Tensor().
generate_embeddings(list) ==
    [ndim |-> IF list = <<>> THEN 1 ELSE 2,
     rows |-> [i \in 1..Len(list) |-> Embed(list[i])]]

Dot(u, v) == u[1] * v[1] + u[2] * v[2]

\* F.normalize divides by max(norm, eps): the zero vector stays zero
NormSq(v) == IF Dot(v, v) = 0 THEN 1 ELSE Dot(v, v)

\* the cosine of two non-negative vectors, kept exact as the fraction
\* <<numerator, denominator>> of its square
Cosine(u, v) == <<Dot(u, v) * Dot(u, v), NormSq(u) * NormSq(v)>>

ScoreLess(s, t) == s[1] * t[2] < t[1] * s[2]
ScoreEq(s, t) == s[1] * t[2] = t[1] * s[2]

\* util.pytorch_cos_sim(a, b) is torch.mm(a_norm, b_norm.T): a 1-D b is
\* unsqueezed to one row, so the empty 1-D tensor has the shape (1, 0) and the
\* product with the (1, d) question row raises
CosSimRaises(embeddings) ==
    embeddings.ndim = 1 /\ embeddings.rows = <<>>

\* cos_scores = util.pytorch_cos_sim(question_embedding, embeddings)[0]
cos_scores(question_embedding, embeddings) ==
    [i \in 1..Len(embeddings.rows) |->
        Cosine(question_embedding, embeddings.rows[i])]

Injective(f, k) == \A p, r \in 1..k : p # r => f[p] # f[r]

\* (a variant: torch.topk with largest=False, the k smallest)
TopKSmallest(scores, k) ==
    {idx \in [1..k -> 1..Len(scores)] :
        /\ Injective(idx, k)
        /\ \A p \in 1..(k - 1) : ~ScoreLess(scores[idx[p + 1]], scores[idx[p]])
        /\ \A j \in 1..Len(scores) :
               (\A p \in 1..k : idx[p] # j) =>
                   \A p \in 1..k : ~ScoreLess(scores[j], scores[idx[p]])}

\* torch.topk(scores, k).indices (largest=True, sorted=True): k distinct
\* positions holding the k largest values, listed by descending value.  The
\* order among equal values is not specified by torch and differs between
\* the CPU and the CUDA kernels: every order is a possible result.
TopK(scores, k) ==
    {idx \in [1..k -> 1..Len(scores)] :
        /\ Injective(idx, k)
        /\ \A p \in 1..(k - 1) : ~ScoreLess(scores[idx[p]], scores[idx[p + 1]])
        /\ \A j \in 1..Len(scores) :
               (\A p \in 1..k : idx[p] # j) =>
                   \A p \in 1..k : ~ScoreLess(scores[idx[p]], scores[j])}

\* (a variant that selects nothing)
ZeroK(list, k) == 0

\* effective_k = min(top_k, available_chunks)
effective_k(list, k) == Min(k, Len(list))

\* retrieve_relevant_chunks: the set of possible outcomes, each a record
\* [raised, indices, result]
retrieve_relevant_chunks(q, list, embeddings, k) ==
    IF CosSimRaises(embeddings)
    THEN {[raised |-> TRUE, indices |-> <<>>, result |-> <<>>]}
    ELSE IF effective_k(list, k) = 0
    THEN {[raised |-> FALSE, indices |-> <<>>, result |-> <<>>]}
    ELSE {[raised |-> FALSE, indices |-> idx,
           result |-> [p \in 1..effective_k(list, k) |-> list[idx[p]]]] :
             idx \in TopK(cos_scores(Embed(q), embeddings),
                          effective_k(list, k))}

-----------------------------------------------------------------------------
(* The retriever on its own: every index and top_k within the bounds *)

\* chunk texts the retriever is tried on: one for each embedding vector
ChunkTexts == {<<"a", ".">>, <<"b", ".">>, <<"a", " ", "b">>, <<".">>}

Questions == {<<"a", "?">>, <<"b", "?">>, <<"a", " ", "b", "?">>}

\* the tensors that can stand for the embeddings of a chunk list: the
\* encoder's output, and for no chunks also an empty 2-D tensor
EmbeddingsOf(list) ==
    {generate_embeddings(list)} \cup
    (IF list = <<>> THEN {[ndim |-> 2, rows |-> <<>>]} ELSE {})

RetrInit ==
    /\ ChunkIdle
    /\ PostIdle
    /\ GenIdle
    /\ AppIdle
    /\ LoopIdle
    /\ question \in Questions
    /\ r_chunks \in UNION {[1..n -> ChunkTexts] : n \in 0..MaxChunks}
    /\ r_embeddings \in EmbeddingsOf(r_chunks)
    /\ top_k \in 0..MaxTopK
    /\ top_indices = <<>>
    /\ relevant_chunks = <<>>
    /\ r_pc = "call"

RetrCall ==
    /\ r_pc = "call"
    /\ \E out \in retrieve_relevant_chunks(question, r_chunks, r_embeddings, top_k) :
        /\ r_pc' = IF out.raised THEN "raised" ELSE "ret"
        /\ top_indices' = out.indices
        /\ relevant_chunks' = out.result
    /\ UNCHANGED <<question, r_chunks, r_embeddings, top_k, chunkVars,
                   postVars, genVars, appVars, loopVars>>

RetrNext == RetrCall

SpecRetrieve == RetrInit /\ [][RetrNext]_vars

r_scores == cos_scores(Embed(question), r_embeddings)

\* C8: the call returns min(top_k, number of chunks) chunk texts from
\* distinct positions and raises nothing, with zero chunks too.
C8_ExactlyEffectiveK ==
    r_pc \in {"ret", "raised"} =>
        /\ r_pc = "ret"
        /\ Len(relevant_chunks) = Min(top_k, Len(r_chunks))
        /\ Len(top_indices) = Len(relevant_chunks)
        /\ Injective(top_indices, Len(top_indices))
        /\ \A p \in 1..Len(relevant_chunks) :
               relevant_chunks[p] = r_chunks[top_indices[p]]

\* (the same for an index of at least one chunk, where the call does return)
NonEmptyIndexExactlyEffectiveK ==
    (r_pc \in {"ret", "raised"} /\ r_chunks # <<>>) =>
        /\ r_pc = "ret"
        /\ Len(relevant_chunks) = Min(top_k, Len(r_chunks))
        /\ Injective(top_indices, Len(top_indices))

Selected(j) == \E p \in 1..Len(top_indices) : top_indices[p] = j

\* C9, amended: the returned chunks are effective_k chunks of highest
\* similarity, listed by descending similarity; which of several chunks of
\* equal similarity comes first is not determined.
C9_TopKDescending ==
    r_pc = "ret" =>
        /\ \A p \in 1..(Len(top_indices) - 1) :
               ~ScoreLess(r_scores[top_indices[p]], r_scores[top_indices[p + 1]])
        /\ (top_indices # <<>>) =>
               \A j \in 1..Len(r_chunks) :
                   ~Selected(j) =>
                       \A p \in 1..Len(top_indices) :
                           ~ScoreLess(r_scores[top_indices[p]], r_scores[j])
        /\ \A p \in 1..Len(relevant_chunks) :
               relevant_chunks[p] = r_chunks[top_indices[p]]

C9_Witness ==
    /\ r_pc = "ret"
    /\ Len(top_indices) = 2
    /\ Len(r_chunks) = 3
    /\ ScoreLess(r_scores[top_indices[2]], r_scores[top_indices[1]])
    /\ \E j \in 1..3 : ~Selected(j) /\ ScoreLess(r_scores[j], r_scores[top_indices[2]])

\* C9: the returned chunks are the effective_k chunks of highest similarity
\* in descending similarity, and among equal similarities the chunk with the
\* smaller index is selected first and listed first.
C9_StableTies ==
    r_pc = "ret" =>
        \E idx \in [1..Len(relevant_chunks) -> 1..Len(r_chunks)] :
            /\ Injective(idx, Len(relevant_chunks))
            /\ \A p \in 1..Len(relevant_chunks) : relevant_chunks[p] = r_chunks[idx[p]]
            /\ \A p \in 1..(Len(relevant_chunks) - 1) :
                   \/ ScoreLess(r_scores[idx[p + 1]], r_scores[idx[p]])
                   \/ /\ ScoreEq(r_scores[idx[p + 1]], r_scores[idx[p]])
                      /\ idx[p] < idx[p + 1]
            /\ \A j \in 1..Len(r_chunks) :
                   (\A p \in 1..Len(relevant_chunks) : idx[p] # j) =>
                       \A p \in 1..Len(relevant_chunks) :
                           \/ ScoreLess(r_scores[j], r_scores[idx[p]])
                           \/ /\ ScoreEq(r_scores[j], r_scores[idx[p]])
                              /\ idx[p] < j

-----------------------------------------------------------------------------
(* The chunker on its own: every text and limit within the bounds *)

ChunkInit ==
    /\ RetrIdle
    /\ PostIdle
    /\ GenIdle
    /\ AppIdle
    /\ LoopIdle
    /\ context \in Texts
    /\ max_chunk_size \in 0..MaxChunkSize
    /\ chunks = <<>>
    /\ chunk_pc = "call"

ChunkCall ==
    /\ chunk_pc = "call"
    /\ chunks' = chunk_context(context, max_chunk_size)
    /\ chunk_pc' = "ret"
    /\ UNCHANGED <<context, max_chunk_size, retrVars, postVars, genVars,
                   appVars, loopVars>>

ChunkNext == ChunkCall

SpecChunk == ChunkInit /\ [][ChunkNext]_vars

RECURSIVE Flatten(_)
Flatten(lists) ==
    IF lists = <<>> THEN <<>> ELSE Head(lists) \o Flatten(Tail(lists))

ChunkSentences == [i \in 1..Len(chunks) |-> SplitSentences(chunks[i])]

\* C5: a chunk whose word count is above max_chunk_size consists of exactly
\* one sentence (whose own word count is then above the limit).
C5_ChunkBounded ==
    chunk_pc = "ret" =>
        \A i \in 1..Len(chunks) :
            WordCount(chunks[i]) > max_chunk_size =>
                Len(ChunkSentences[i]) = 1

C5_Witness ==
    /\ chunk_pc = "ret"
    /\ max_chunk_size >= 1
    /\ Len(chunks) >= 2
    /\ \E i \in 1..Len(chunks) : WordCount(chunks[i]) > max_chunk_size
    /\ \E i \in 1..Len(chunks) : Len(ChunkSentences[i]) >= 2

\* C6: the sentences of the chunks, read chunk by chunk, are the sentence
\* sequence of the input text.
C6_SentencesPreserved ==
    chunk_pc = "ret" => Flatten(ChunkSentences) = SplitSentences(context)

C6_Witness ==
    /\ chunk_pc = "ret"
    /\ Len(chunks) >= 2
    /\ Len(SplitSentences(context)) >= 3
    /\ \E i \in 1..Len(chunks) : WordCount(chunks[i]) > max_chunk_size

\* C7: chunk_context of the empty text is the empty list.
C7_EmptyTextNoChunks ==
    (chunk_pc = "ret" /\ context = <<>>) => chunks = <<>>

-----------------------------------------------------------------------------
(* post_process_answer                                                     *)
(*                                                                         *)
(* An answer is the sequence of its whitespace-separated words.  A word is *)
(* [k, d]: its kind k and the number d of periods that follow it.  Kinds:  *)
(* "w" a lower-case word, "W" a capitalised word, "WW" two capitalised     *)
(* words written together, "ID9" an ID with digits (ID:42), "Objective:",  *)
(* "-" a list marker, "Name:" one of the label prefixes, "" no letters at  *)
(* all (a period standing alone, or a hole a deletion left behind).        *)

Tok(k, d) == [k |-> k, d |-> d]

Blank(t) == t.k = "" /\ t.d = 0

\* re.sub(r'ID:?\s*\d+', '', answer)
StripIds(ans) ==
    [i \in 1..Len(ans) |->
        IF ans[i].k = "ID9" THEN Tok("", ans[i].d) ELSE ans[i]]

\* re.sub(r'Objective:.*', '', answer)
StripObjective(ans) ==
    LET hits == {i \in 1..Len(ans) : ans[i].k = "Objective:"}
    IN  IF hits = {} THEN ans
        ELSE SubSeq(ans, 1, (CHOOSE i \in hits : \A j \in hits : i <= j) - 1)

\* re.sub(r'^\s*[-•]\s*', '', answer)
StripListMarker(ans) ==
    LET solid == {i \in 1..Len(ans) : ~Blank(ans[i])}
    IN  IF solid = {} THEN ans
        ELSE LET f == CHOOSE i \in solid : \A j \in solid : i <= j
             IN  IF ans[f].k = "-"
                 THEN [ans EXCEPT ![f] = Tok("", ans[f].d)]
                 ELSE ans

\* ' '.join(answer.split())
CollapseWhitespace(ans) == SelectSeq(ans, LAMBDA t : ~Blank(t))

\* answer.split('.'), each fragment as the list of its words
RECURSIVE Fragments(_, _, _)
Fragments(ans, i, cur) ==
    IF i > Len(ans) THEN <<cur>>
    ELSE LET t == ans[i]
             grown == IF t.k = "" THEN cur ELSE Append(cur, t.k)
         IN  IF t.d = 0 THEN Fragments(ans, i + 1, grown)
             ELSE <<grown>> \o [n \in 1..(t.d - 1) |-> <<>>]
                  \o Fragments(ans, i + 1, <<>>)

\* '. '.join(complete_sentences) + '.'
RECURSIVE JoinSentences(_)
JoinSentences(frags) ==
    IF frags = <<>> THEN <<>>
    ELSE LET f == Head(frags)
         IN  [n \in 1..Len(f) |-> Tok(f[n], IF n = Len(f) THEN 1 ELSE 0)]
             \o JoinSentences(Tail(frags))

\* if '.' in answer: keep the fragments of more than 2 words, if there are any
DropShortSentences(ans) ==
    IF \A i \in 1..Len(ans) : ans[i].d = 0 THEN ans
    ELSE LET complete_sentences ==
                 SelectSeq(Fragments(ans, 1, <<>>), LAMBDA f : Len(f) > 2)
         IN  IF complete_sentences = <<>> THEN ans
             ELSE JoinSentences(complete_sentences)

\* if answer and answer[0].isalpha(): answer = answer[0].upper() + answer[1:]
CapitalizeFirst(ans) ==
    IF ans # <<>> /\ ans[1].k = "w" THEN [ans EXCEPT ![1].k = "W"] ELSE ans

\* if not any(answer.endswith(p) for p in '.!?'): answer += '.'
EnsureTerminal(ans) ==
    IF ans = <<>> THEN <<Tok("", 1)>>
    ELSE IF ans[Len(ans)].d > 0 THEN ans
    ELSE [ans EXCEPT ![Len(ans)].d = 1]

\* re.sub(r'\s+([.,!?])', r'\1', answer)
RECURSIVE AttachPunctuation(_, _)
AttachPunctuation(ans, out) ==
    IF ans = <<>> THEN out
    ELSE LET t == Head(ans)
         IN  IF t.k = "" /\ out # <<>>
             THEN AttachPunctuation(Tail(ans),
                      [out EXCEPT ![Len(out)].d = out[Len(out)].d + t.d])
             ELSE AttachPunctuation(Tail(ans), Append(out, t))

\* re.sub(r'([A-Z][a-z]+)\s*([A-Z][a-z]+)', r'\1 \2', answer): capitalised
\* words are matched in pairs from the left; pending says that a capitalised
\* word is waiting for its partner
RECURSIVE SplitCapitalized(_, _, _)
SplitCapitalized(ans, out, pending) ==
    IF ans = <<>> THEN out
    ELSE LET t == Head(ans)
             pieces == IF t.k = "WW" /\ ~pending
                       THEN <<Tok("W", 0), Tok("W", t.d)>> ELSE <<t>>
             waits == /\ t.d = 0
                      /\ \/ t.k = "WW" /\ pending
                         \/ t.k = "W" /\ ~pending
         IN  SplitCapitalized(Tail(ans), out \o pieces, waits)

\* re.sub(r'\b(ID|Submitted by|Name|Roll|Number):\s*', '', answer, flags=re.I)
\* and the final answer.strip()
StripLabels(ans) ==
    CollapseWhitespace(
        [i \in 1..Len(ans) |->
            IF ans[i].k = "Name:" THEN Tok("", ans[i].d) ELSE ans[i]])

post_process_answer(ans) ==
    StripLabels(
     SplitCapitalized(
      AttachPunctuation(
       EnsureTerminal(
        CapitalizeFirst(
         DropShortSentences(
          CollapseWhitespace(
           StripListMarker(
            StripObjective(
             StripIds(ans))))))), <<>>), <<>>, FALSE))

\* len(answer.split())
AnswerWords(ans) == Len(CollapseWhitespace(ans))

\* the statements of the try block, in order
PostSteps ==
    <<"ids", "objective", "marker", "whitespace", "sentences", "capitalize",
      "terminal", "punctuation", "capitalized", "labels">>

\* answer = <statement>(answer)
ApplyStep(step, ans) ==
    CASE step = "ids" -> StripIds(ans)
      [] step = "objective" -> StripObjective(ans)
      [] step = "marker" -> StripListMarker(ans)
      [] step = "whitespace" -> CollapseWhitespace(ans)
      [] step = "sentences" -> DropShortSentences(ans)
      [] step = "capitalize" -> CapitalizeFirst(ans)
      [] step = "terminal" -> EnsureTerminal(ans)
      [] step = "punctuation" -> AttachPunctuation(ans, <<>>)
      [] step = "capitalized" -> SplitCapitalized(ans, <<>>, FALSE)
      [] step = "labels" -> StripLabels(ans)

\* the statement after step; after the last one the function returns
Following(step) ==
    LET n == CHOOSE i \in 1..Len(PostSteps) : PostSteps[i] = step
    IN  IF n = Len(PostSteps) THEN "return" ELSE PostSteps[n + 1]

\* one statement of the try block runs to its end
PostStep ==
    /\ pp_pc \in {PostSteps[i] : i \in 1..Len(PostSteps)}
    /\ pp_answer' = ApplyStep(pp_pc, pp_answer)
    /\ pp_pc' = Following(pp_pc)
    /\ UNCHANGED <<pp_raw, pp_result>>
    /\ UNCHANGED <<chunkVars, retrVars, genVars, appVars, loopVars>>

\* a statement raises: except Exception ... return answer, where answer is the
\* local variable the statements before have assigned to
PostRaise ==
    /\ pp_pc \in {PostSteps[i] : i \in 1..Len(PostSteps)}
    /\ pp_pc' = "except"
    /\ pp_result' = pp_answer
    /\ UNCHANGED <<pp_raw, pp_answer>>
    /\ UNCHANGED <<chunkVars, retrVars, genVars, appVars, loopVars>>

\* return answer.strip()
PostReturn ==
    /\ pp_pc = "return"
    /\ pp_pc' = "ret"
    /\ pp_result' = pp_answer
    /\ UNCHANGED <<pp_raw, pp_answer>>
    /\ UNCHANGED <<chunkVars, retrVars, genVars, appVars, loopVars>>

-----------------------------------------------------------------------------
(* generate_fluent_answer *)

NoInfoApology ==
    "I'm sorry, but I couldn't find relevant information to answer your question."

FailedApology ==
    "I apologize, but I couldn't generate an accurate answer to that question."

\* what tokenizer.decode(outputs[0]) can be: the generation samples, so any of
\* these may come out of any attempt
RawAnswers ==
    {<<>>,
     <<Tok("w", 0), Tok("w", 1)>>,
     <<Tok("w", 0), Tok("w", 0), Tok("w", 0), Tok("w", 0), Tok("w", 1)>>,
     <<Tok("ID9", 0), Tok("w", 0), Tok("w", 0), Tok("w", 0), Tok("w", 0)>>,
     <<Tok("WW", 0), Tok("w", 0), Tok("w", 0), Tok("w", 1)>>,
     <<Tok("w", 0), Tok("w", 0), Tok("w", 1), Tok("w", 0), Tok("w", 1)>>,
     <<Tok("-", 0), Tok("W", 0), Tok("w", 0), Tok("w", 0), Tok("w", 0), Tok("", 1)>>,
     <<Tok("w", 0), Tok("w", 0), Tok("Objective:", 0), Tok("w", 0), Tok("w", 0),
       Tok("w", 0)>>}

\* (a variant without the guard)
NeverEmpty(list) == FALSE

\* if not relevant_chunks
NoChunks(list) == list = <<>>

\* (a variant of the length test that lets every answer through)
NeverShort(ans) == FALSE

\* if len(answer.split()) < 5
TooShort(ans) == AnswerWords(ans) < 5

\* (a variant of the except branch that lets the exception out of the call)
GenPropagates ==
    /\ g_pc' = "raised"
    /\ UNCHANGED g_result

\* the except branch: the call returns the second apology
GenFails ==
    /\ g_pc' = "done"
    /\ g_result' = [apology |-> FailedApology, answer |-> <<>>]

\* the guard on relevant_chunks at the top of the function
GenEnter ==
    /\ g_pc = "enter"
    /\ IF NoChunks(g_chunks)
       THEN /\ g_pc' = "done"
            /\ g_result' = [apology |-> NoInfoApology, answer |-> <<>>]
       ELSE /\ g_pc' = "encode"
            /\ UNCHANGED g_result
    /\ UNCHANGED <<g_chunks, g_depth, g_answer, tokenizer_calls, model_calls>>
    /\ UNCHANGED <<chunkVars, retrVars, postVars, appVars, loopVars>>

\* inputs = tokenizer.encode(input_text, ...)
GenEncode ==
    /\ g_pc = "encode"
    /\ tokenizer_calls' = tokenizer_calls + 1
    /\ \/ g_pc' = "generate" /\ UNCHANGED g_result
       \/ GenFails
    /\ UNCHANGED <<g_chunks, g_depth, g_answer, model_calls>>
    /\ UNCHANGED <<chunkVars, retrVars, postVars, appVars, loopVars>>

\* outputs = t5_model.generate(inputs, ..., bad_words_ids=[... tokenizer.encode
\* of three words ...])
GenGenerate ==
    /\ g_pc = "generate"
    /\ tokenizer_calls' = tokenizer_calls + 3
    /\ model_calls' = model_calls + 1
    /\ \/ \E raw \in RawAnswers :
            /\ g_answer' = raw
            /\ g_pc' = "decode"
            /\ UNCHANGED g_result
       \/ GenFails /\ UNCHANGED g_answer
    /\ UNCHANGED <<g_chunks, g_depth>>
    /\ UNCHANGED <<chunkVars, retrVars, postVars, appVars, loopVars>>

\* answer = tokenizer.decode(outputs[0], skip_special_tokens=True)
GenDecode ==
    /\ g_pc = "decode"
    /\ tokenizer_calls' = tokenizer_calls + 1
    /\ \/ g_pc' = "post" /\ UNCHANGED g_result
       \/ GenFails
    /\ UNCHANGED <<g_chunks, g_depth, g_answer, model_calls>>
    /\ UNCHANGED <<chunkVars, retrVars, postVars, appVars, loopVars>>

\* answer = post_process_answer(answer); the call always returns, because
\* post_process_answer catches what its statements raise.  Here its statements
\* run to the end; a statement that raises is the subject of SpecPost.
GenPostProcess ==
    /\ g_pc = "post"
    /\ g_answer' = post_process_answer(g_answer)
    /\ g_pc' = "check"
    /\ UNCHANGED <<g_chunks, g_depth, g_result, tokenizer_calls, model_calls>>
    /\ UNCHANGED <<chunkVars, retrVars, postVars, appVars, loopVars>>

\* the length test: a short answer calls generate_fluent_answer again with the
\* same arguments, and whatever that call returns is returned; a call the
\* interpreter's stack has no room for raises RecursionError, an Exception,
\* inside the try
GenCheck ==
    /\ g_pc = "check"
    /\ IF TooShort(g_answer)
       THEN IF g_depth < RecursionLimit
            THEN /\ g_depth' = g_depth + 1
                 /\ g_pc' = "enter"
                 /\ UNCHANGED g_result
            ELSE GenFails /\ UNCHANGED g_depth
       ELSE /\ g_pc' = "done"
            /\ g_result' = [apology |-> "", answer |-> g_answer]
            /\ UNCHANGED g_depth
    /\ UNCHANGED <<g_chunks, g_answer, tokenizer_calls, model_calls>>
    /\ UNCHANGED <<chunkVars, retrVars, postVars, appVars, loopVars>>

\* the post-processed answers that pass the length test and are returned
LongEnoughAnswers ==
    {ans \in {post_process_answer(raw) : raw \in RawAnswers} : ~TooShort(ans)}

\* what generate_fluent_answer(question, relevant_chunks) can return
GenOutcomes(relevant) ==
    IF NoChunks(relevant)
    THEN {[apology |-> NoInfoApology, answer |-> <<>>]}
    ELSE {[apology |-> FailedApology, answer |-> <<>>]} \cup
         {[apology |-> "", answer |-> ans] : ans \in LongEnoughAnswers}

-----------------------------------------------------------------------------
(* The generator on its own *)

GenInit ==
    /\ ChunkIdle
    /\ RetrIdle
    /\ AppIdle
    /\ LoopIdle
    /\ PostIdle
    /\ g_chunks \in UNION {[1..n -> ChunkTexts] : n \in 0..2}
    /\ g_pc = "enter"
    /\ g_depth = 1
    /\ g_answer = <<>>
    /\ g_result = NoResult
    /\ tokenizer_calls = 0
    /\ model_calls = 0

GenNext ==
    \/ GenEnter
    \/ GenEncode
    \/ GenGenerate
    \/ GenDecode
    \/ GenPostProcess
    \/ GenCheck

SpecGen == GenInit /\ [][GenNext]_vars

\* (what the step machine returns is what GenOutcomes says, see below)
GenReturnsOutcome ==
    g_pc = "done" => g_result \in GenOutcomes(g_chunks)

\* C1: the generation attempts of one call stay within a retry ceiling of the
\* function's own, below what the interpreter's call stack has room for; the
\* call gives up with an apology before the stack does.
C1_RetryCeiling == model_calls < RecursionLimit

\* C10: with no relevant chunks the call returns the no-information apology
\* at once: no tokenizer call, no model call, no retry.
C10_EmptyChunksApology ==
    g_chunks = <<>> =>
        /\ g_pc \in {"enter", "done"}
        /\ tokenizer_calls = 0
        /\ model_calls = 0
        /\ g_depth = 1
        /\ g_pc = "done" => g_result = [apology |-> NoInfoApology, answer |-> <<>>]

C10_Witness ==
    /\ g_chunks = <<>>
    /\ g_pc = "done"
    /\ g_result.apology = NoInfoApology

\* C11: a step that tokenizes, generates or decodes either goes on to the
\* next step or, when it raises, ends the call with the failure apology as
\* its return value, on the first attempt and on every retry; the call never
\* ends with an exception.
C11_FailuresBecomeApology ==
    [][/\ g_pc' # "raised"
       /\ g_pc = "encode" => g_pc' \in {"generate", "done"}
       /\ g_pc = "generate" => g_pc' \in {"decode", "done"}
       /\ g_pc = "decode" => g_pc' \in {"post", "done"}
       /\ (g_pc \in {"encode", "generate", "decode"} /\ g_pc' = "done") =>
              g_result' = [apology |-> FailedApology, answer |-> <<>>]
      ]_vars

\* a retry whose tokenizer call raised, below the depth the stack gives out at
C11_Witness ==
    /\ g_pc = "done"
    /\ g_result.apology = FailedApology
    /\ g_depth = 2
    /\ model_calls = 1
    /\ tokenizer_calls = 6

\* C17: what the call returns is one of the two apologies or a post-processed
\* answer of 5 words or more; after an answer of fewer than 5 words the only
\* continuation is the call of generate_fluent_answer with the same chunks,
\* which starts a new attempt or, when the stack has no room for it, raises
\* and leaves the caller with the failure apology.
C17_ShortNeverReturned ==
    [][/\ g_pc' = "done" =>
            \/ g_result' = [apology |-> NoInfoApology, answer |-> <<>>]
            \/ g_result' = [apology |-> FailedApology, answer |-> <<>>]
            \/ g_result'.apology = "" /\ AnswerWords(g_result'.answer) >= 5
       /\ (g_pc = "check" /\ AnswerWords(g_answer) < 5) =>
            \/ /\ g_pc' = "enter"
               /\ g_chunks' = g_chunks
               /\ g_depth' = g_depth + 1
            \/ /\ g_depth = RecursionLimit
               /\ g_pc' = "done"
               /\ g_result' = [apology |-> FailedApology, answer |-> <<>>]
      ]_vars

\* a short first answer, a second attempt, and an answer that is returned
C17_Witness ==
    /\ g_pc = "done"
    /\ g_result.apology = ""
    /\ g_depth = 2
    /\ model_calls = 2

-----------------------------------------------------------------------------
(* post_process_answer on its own *)

\* the strings post_process_answer is given: what the model can decode to,
\* and two answers that open with a label or hold a period standing alone
PostInputs ==
    RawAnswers \cup
    {<<Tok("Name:", 0), Tok("w", 0), Tok("w", 0), Tok("w", 0), Tok("w", 0),
       Tok("w", 1)>>,
     <<Tok("w", 0), Tok("w", 0), Tok("w", 0), Tok("", 1), Tok("W", 0),
       Tok("W", 0), Tok("w", 0)>>}

PostInit ==
    /\ ChunkIdle
    /\ RetrIdle
    /\ GenIdle
    /\ AppIdle
    /\ LoopIdle
    /\ pp_raw \in PostInputs
    /\ pp_answer = pp_raw
    /\ pp_pc = PostSteps[1]
    /\ pp_result = <<>>

PostNext ==
    \/ PostStep
    \/ PostRaise
    \/ PostReturn

SpecPost == PostInit /\ [][PostNext]_vars

\* (the step machine returns what the composed function says)
PostReturnsComposed ==
    pp_pc = "ret" => pp_result = post_process_answer(pp_raw)

\* C14: when a statement of the pipeline raises, the function returns the
\* string it was given, with none of the earlier statements' changes.
C14_FailOpen ==
    pp_pc = "except" => pp_result = pp_raw

-----------------------------------------------------------------------------
(* The request handlers of main.py.  A handler is an async function that   *)
(* never awaits between its first and its last access to the table and to  *)
(* the cache, so each request is one step.                                 *)

\* chunk_context(context, max_chunk_size=512): the default limit
DefaultMaxChunkSize == 512

\* retrieve_relevant_chunks(..., top_k=3) in ask_question
AskTopK == 3

Words(ch, n) == [i \in 1..(2 * n - 1) |-> IF i % 2 = 1 THEN ch ELSE " "]

\* a file whose only text is characters that clean_text removes
EmptyText == <<>>

ShortText == <<"a", ".", " ", "b", ".">>

\* 300 words, then 213 words: more than one chunk under the default limit
LongText == Words("a", 300) \o <<".", " ">> \o Words("b", 213) \o <<".">>

\* the texts extract_text_from_pdf hands to upload_pdf
DocTexts == {EmptyText, LongText}

\* the texts of the uploads that meet other requests in flight
LoopTexts == {EmptyText, ShortText}

StoredTexts == DocTexts \cup LoopTexts

AskQuestions == {<<"a", "?">>, <<"b", "?">>}

\* the stored pair  {"chunks": chunks, "embeddings": embeddings}
CacheEntry(list, embeddings) == [chunks |-> list, embeddings |-> embeddings]

\* a mapping with one key more, one key less
Put(map, key, val) ==
    [k \in DOMAIN map \cup {key} |-> IF k = key THEN val ELSE map[k]]

Drop(map, key) == [k \in DOMAIN map \ {key} |-> map[k]]

\* the id of a new row: the table's INTEGER PRIMARY KEY is the rowid, one
\* more than the largest id in the table
NextId(docs) ==
    IF DOMAIN docs = {} THEN 1
    ELSE (CHOOSE m \in DOMAIN docs : \A j \in DOMAIN docs : j <= m) + 1

\* the file an upload is saved as, named after the row it is meant for
\* (the code's name is a timestamp and the client's file name)
FileFor(docs) == NextId(docs)

\* async with aiofiles.open(file_path, 'wb') ...: the file is written
SaveFile(fs, name) == fs \cup {name}

\* (a variant that leaves the file where it is)
KeepFile(fs, name) == fs

\* os.remove(file_path)
RemoveFile(fs, name) == fs \ {name}

\* upload_pdf when the file name is refused (400, before anything is saved),
\* or when extract_text_from_pdf, called once, raises: ValueError for a file
\* without text (400), anything else (500); the saved file is removed
UploadRejected ==
    /\ \/ /\ lastOp' = [NoOp EXCEPT !.op = "upload", !.status = 400]
          /\ UNCHANGED files
       \/ \E code \in {400, 500} :
             /\ lastOp' = [NoOp EXCEPT !.op = "upload", !.status = code,
                                       !.extractions = 1]
             /\ files' = RemoveFile(SaveFile(files, FileFor(documents)),
                                    FileFor(documents))
    /\ UNCHANGED <<documents, document_embeddings, ever_deleted>>
    /\ UNCHANGED <<chunkVars, retrVars, postVars, genVars, loopVars>>

\* (a variant that chunks one fixed text whatever the row holds)
ChunksOfLongText ==
    [t \in StoredTexts |-> chunk_context(LongText, DefaultMaxChunkSize)]

\* chunk_context(content) and generate_embeddings(chunks), as both handlers
\* call them, for every text a row can hold
ChunksOf == [t \in StoredTexts |-> chunk_context(t, DefaultMaxChunkSize)]

EmbOf == [t \in StoredTexts |-> generate_embeddings(ChunksOf[t])]

\* chunks = chunk_context(text_content); if chunks: store the pair
UploadStores(id, text, cache) ==
    LET list == ChunksOf[text]
    IN  IF list # <<>>
        THEN Put(cache, id, CacheEntry(list, EmbOf[text]))
        ELSE cache

\* upload_pdf: store the row, then chunk and embed its text
UploadPdf ==
    /\ NextId(documents) <= MaxDocs
    /\ \E text_content \in DocTexts :
         LET id == NextId(documents)
         IN  /\ documents' = Put(documents, id, text_content)
             /\ document_embeddings' =
                    UploadStores(id, text_content, document_embeddings)
             /\ files' = SaveFile(files, FileFor(documents))
             /\ lastOp' = [NoOp EXCEPT
                    !.op = "upload", !.id = id, !.status = 200,
                    !.cached_before = id \in DOMAIN document_embeddings,
                    !.embedded = 1, !.extractions = 1]
    /\ UNCHANGED ever_deleted
    /\ UNCHANGED <<chunkVars, retrVars, postVars, genVars, loopVars>>

\* (a variant that never finds the entry)
AlwaysMissing(id, cache) == TRUE

\* if request.document_id not in document_embeddings
CacheMissing(id, cache) == id \notin DOMAIN cache

\* ask_question for an id the table does not hold: 404
AskNotFound ==
    /\ \E id \in 1..MaxDocs :
         /\ id \notin DOMAIN documents
         /\ lastOp' = [NoOp EXCEPT
                !.op = "ask", !.id = id, !.status = 404,
                !.cached_before = id \in DOMAIN document_embeddings]
    /\ UNCHANGED <<documents, document_embeddings, files, ever_deleted>>
    /\ UNCHANGED <<chunkVars, retrVars, postVars, genVars, loopVars>>

\* (a variant that reports another value)
HalfConfidence == "0.5"

\* confidence = 1.0, whatever generate_fluent_answer returned
GeneratedConfidence == "1.0"

\* ask_question for a stored document
AskQuestion ==
    /\ \E id \in DOMAIN documents, q \in AskQuestions :
         LET missing == CacheMissing(id, document_embeddings)
             list == ChunksOf[documents[id]]
             built == IF missing
                      THEN Put(document_embeddings, id,
                               CacheEntry(list, EmbOf[documents[id]]))
                      ELSE document_embeddings
             before == id \in DOMAIN document_embeddings
         IN  IF missing /\ list = <<>>
             THEN /\ lastOp' = [NoOp EXCEPT
                         !.op = "ask", !.id = id, !.status = 500,
                         !.cached_before = before]
                  /\ UNCHANGED document_embeddings
             ELSE /\ document_embeddings' = built
                  /\ \E out \in retrieve_relevant_chunks(
                                    q, built[id].chunks, built[id].embeddings,
                                    AskTopK) :
                       IF out.raised
                       THEN lastOp' = [NoOp EXCEPT
                                !.op = "ask", !.id = id, !.status = 500,
                                !.cached_before = before,
                                !.embedded = IF missing THEN 1 ELSE 0,
                                !.used = built[id]]
                       ELSE IF out.result = <<>>
                       THEN lastOp' = [NoOp EXCEPT
                                !.op = "ask", !.id = id, !.status = 200,
                                !.cached_before = before,
                                !.embedded = IF missing THEN 1 ELSE 0,
                                !.used = built[id],
                                !.answer = [apology |-> NoInfoApology,
                                            answer |-> <<>>],
                                !.confidence = "0.0"]
                       ELSE \E answer \in GenOutcomes(out.result) :
                              lastOp' = [NoOp EXCEPT
                                !.op = "ask", !.id = id, !.status = 200,
                                !.cached_before = before,
                                !.embedded = IF missing THEN 1 ELSE 0,
                                !.used = built[id],
                                !.relevant = out.result,
                                !.answer = answer,
                                !.confidence = GeneratedConfidence]
    /\ UNCHANGED <<documents, files, ever_deleted>>
    /\ UNCHANGED <<chunkVars, retrVars, postVars, genVars, loopVars>>

\* delete_document for an id the table does not hold: 404
DeleteNotFound ==
    /\ \E id \in 1..MaxDocs :
         /\ id \notin DOMAIN documents
         /\ lastOp' = [NoOp EXCEPT
                !.op = "delete", !.id = id, !.status = 404,
                !.cached_before = id \in DOMAIN document_embeddings]
    /\ UNCHANGED <<documents, document_embeddings, files, ever_deleted>>
    /\ UNCHANGED <<chunkVars, retrVars, postVars, genVars, loopVars>>

\* (a variant that leaves the entry in place)
KeepEntry(id, cache) == cache

\* if document_id in document_embeddings: del document_embeddings[document_id]
Invalidate(id, cache) == IF id \in DOMAIN cache THEN Drop(cache, id) ELSE cache

\* delete_document: drop the cache entry, then the row
DeleteDocument ==
    /\ \E id \in DOMAIN documents :
         /\ document_embeddings' = Invalidate(id, document_embeddings)
         /\ documents' = Drop(documents, id)
         /\ files' = RemoveFile(files, id)
         /\ ever_deleted' = ever_deleted \cup {id}
         /\ lastOp' = [NoOp EXCEPT
                !.op = "delete", !.id = id, !.status = 200,
                !.cached_before = id \in DOMAIN document_embeddings]
    /\ UNCHANGED <<chunkVars, retrVars, postVars, genVars, loopVars>>

\* the server process starts again: the cache is a module-level dict, empty at
\* import; the table is a file and stays
Restart ==
    /\ document_embeddings # <<>>
    /\ document_embeddings' = <<>>
    /\ lastOp' = [NoOp EXCEPT !.op = "restart"]
    /\ UNCHANGED <<documents, files, ever_deleted>>
    /\ UNCHANGED <<chunkVars, retrVars, postVars, genVars, loopVars>>

\* the content column of a stored row is rewritten by another client of the
\* database file; no handler of the server does this
ContentEdited ==
    /\ \E id \in DOMAIN documents, text \in DocTexts :
         /\ text # documents[id]
         /\ documents' = [documents EXCEPT ![id] = text]
         /\ lastOp' = [NoOp EXCEPT !.op = "edit", !.id = id]
    /\ UNCHANGED <<document_embeddings, files, ever_deleted>>
    /\ UNCHANGED <<chunkVars, retrVars, postVars, genVars, loopVars>>

Init ==
    /\ ChunkIdle
    /\ RetrIdle
    /\ PostIdle
    /\ GenIdle
    /\ AppIdle
    /\ LoopIdle

Next ==
    \/ UploadRejected
    \/ UploadPdf
    \/ AskNotFound
    \/ AskQuestion
    \/ DeleteNotFound
    \/ DeleteDocument
    \/ Restart

\* the server and its requests
Spec == Init /\ [][Next]_vars

NextEdited == Next \/ ContentEdited

\* the server, its requests, and rows rewritten behind its back
SpecEdited == Init /\ [][NextEdited]_vars

\* the pair a build from text stores
EntryOf == [t \in StoredTexts |->
    CacheEntry(chunk_context(t, DefaultMaxChunkSize),
               generate_embeddings(chunk_context(t, DefaultMaxChunkSize)))]

\* C2: a question for an id that has a cache entry chunks nothing, embeds
\* nothing and retrieves from the stored pair, which it leaves as it is, also
\* when the row's content is no longer the text the pair was built from; two
\* questions in a row for one id embed chunks at most once.
C2_CacheReused ==
    [][/\ (lastOp'.op = "ask" /\ lastOp'.status = 200 /\ lastOp'.cached_before) =>
            /\ lastOp'.embedded = 0
            /\ lastOp'.id \in DOMAIN document_embeddings
            /\ lastOp'.used = document_embeddings[lastOp'.id]
            /\ document_embeddings' = document_embeddings
       /\ (lastOp.op = "ask" /\ lastOp'.op = "ask" /\ lastOp.id = lastOp'.id) =>
            lastOp.embedded + lastOp'.embedded <= 1
      ]_vars

C2_Witness ==
    /\ lastOp.op = "ask"
    /\ lastOp.status = 200
    /\ lastOp.cached_before
    /\ lastOp.embedded = 0
    /\ lastOp.used # EntryOf[documents[lastOp.id]]

\* C3: after a successful delete the cache has no entry for the id; and every
\* entry that appears in the cache is built from the text stored under its id
\* at that moment.
C3_DeleteInvalidates ==
    [][/\ (lastOp'.op = "delete" /\ lastOp'.status = 200) =>
            lastOp'.id \notin DOMAIN document_embeddings'
       /\ \A id \in DOMAIN document_embeddings' :
            id \notin DOMAIN document_embeddings =>
                /\ id \in DOMAIN documents'
                /\ document_embeddings'[id] = EntryOf[documents'[id]]
      ]_vars

C3_Witness ==
    /\ lastOp.op = "ask"
    /\ lastOp.status = 200
    /\ lastOp.embedded = 1
    /\ lastOp.id \in ever_deleted
    /\ lastOp.used = EntryOf[LongText]

\* C4: every cache entry holds as many embeddings as chunks, embedding i is
\* the embedding of chunk i, and the entry is the whole result of one build.
C4_ParallelLists ==
    \A id \in DOMAIN document_embeddings :
        LET e == document_embeddings[id]
        IN  /\ Len(e.chunks) = Len(e.embeddings.rows)
            /\ \A i \in 1..Len(e.chunks) :
                   e.embeddings.rows[i] = Embed(e.chunks[i])
            /\ \E t \in DocTexts : e = EntryOf[t]

C4_Witness ==
    /\ lastOp.op = "ask"
    /\ lastOp.embedded = 1
    /\ lastOp.id \in ever_deleted
    /\ Len(document_embeddings[lastOp.id].chunks) = 2
    /\ Cardinality(DOMAIN document_embeddings) = 2

\* C12: a question answered with status 200 reports 1.0 or 0.0 and nothing
\* else: 1.0 when chunks were retrieved and an answer was generated from
\* them, 0.0 together with the no-information answer when no chunk was
\* retrieved; a request that fails reports no confidence at all.
C12_ConfidenceValues ==
    /\ lastOp.status # 200 => lastOp.confidence = ""
    /\ (lastOp.op = "ask" /\ lastOp.status = 200) =>
          /\ lastOp.confidence \in {"1.0", "0.0"}
          /\ (lastOp.relevant # <<>> /\ lastOp.answer.apology = "") =>
                 lastOp.confidence = "1.0"
          /\ lastOp.relevant = <<>> =>
                 /\ lastOp.confidence = "0.0"
                 /\ lastOp.answer = [apology |-> NoInfoApology, answer |-> <<>>]

C12_Witness ==
    /\ lastOp.op = "ask"
    /\ lastOp.status = 200
    /\ Len(lastOp.relevant) = 2
    /\ lastOp.answer.apology = ""
    /\ AnswerWords(lastOp.answer.answer) >= 5
    /\ lastOp.confidence = "1.0"

\* C13: an upload that is refused, for its file name or because the one call
\* of extract_text_from_pdf raised, leaves the table, the cache and the
\* uploads directory as they were.
C13_RejectedUploadLeavesNoTrace ==
    [][(lastOp'.op = "upload" /\ lastOp'.status # 200) =>
            /\ documents' = documents
            /\ document_embeddings' = document_embeddings
            /\ files' = files
            /\ lastOp'.extractions <= 1
      ]_vars

\* an extraction that found no text, with a document and its entry in place
C13_Witness ==
    /\ lastOp.op = "upload"
    /\ lastOp.status = 400
    /\ lastOp.extractions = 1
    /\ documents # <<>>
    /\ DOMAIN document_embeddings = DOMAIN documents
    /\ files = DOMAIN documents

\* C19: the chunk list of every cache entry is chunk_context of the content
\* stored under its id, and a question is answered from the chunks of the
\* document stored under its id, also when the id had belonged to a document
\* that was deleted.
C19_ChunksMatchContent ==
    /\ \A id \in DOMAIN document_embeddings :
          /\ id \in DOMAIN documents
          /\ document_embeddings[id].chunks = EntryOf[documents[id]].chunks
    /\ (lastOp.op = "ask" /\ lastOp.status = 200) =>
          lastOp.used.chunks = EntryOf[documents[lastOp.id]].chunks

\* a question for an id that was deleted and given to a later upload, answered
\* from the entry that upload stored
C19_Witness ==
    /\ lastOp.op = "ask"
    /\ lastOp.status = 200
    /\ lastOp.id \in ever_deleted
    /\ lastOp.cached_before
    /\ documents[lastOp.id] = LongText
    /\ Len(lastOp.used.chunks) = 2

\* C20: every cache entry holds a chunk, every question for a stored document
\* gets chunks from retrieval, and generate_fluent_answer is called with
\* them: no request ends in the no-chunks error or in the no-information
\* answer.
C20_EntriesHaveChunks ==
    /\ \A id \in DOMAIN document_embeddings :
          Len(document_embeddings[id].chunks) >= 1
    /\ lastOp.op = "ask" =>
          /\ lastOp.status \in {200, 404}
          /\ lastOp.status = 200 =>
                /\ Len(lastOp.relevant) >= 1
                /\ lastOp.answer \in GenOutcomes(lastOp.relevant)
                /\ lastOp.answer.apology # NoInfoApology
                /\ lastOp.confidence # "0.0"

\* a question about a document without any text: one empty chunk is retrieved
C20_Witness ==
    /\ lastOp.op = "ask"
    /\ lastOp.status = 200
    /\ documents[lastOp.id] = EmptyText
    /\ lastOp.used.chunks = <<EmptyText>>
    /\ lastOp.relevant = <<EmptyText>>

-----------------------------------------------------------------------------
(* Requests in flight.  uvicorn runs the handlers as coroutines of one     *)
(* event loop: a request that has arrived waits until the loop is free,    *)
(* and the coroutine the loop executes keeps it until it awaits or ends.   *)
(* upload_pdf awaits only while it saves the file, before it touches the   *)
(* table or the cache; ask_question and delete_document never await.       *)

LoopQuestions == {<<"a", "?">>}

\* (variants of ask_question that give the loop away inside their body)
AwaitsInBuild(pc) == pc \in {"chunk", "embed", "store"}

AwaitsAfterLookup(pc) == pc = "test"

AwaitsBetweenReads(pc) == pc = "read_embeddings"

\* does ask_question await before the statement at pc?  Its body holds no
\* await: no
Awaits(pc) == FALSE

\* the loop is free for s, or s has it
CanRun(s) == running \in {"none", s}

\* s has executed up to the statement rec.pc
Advance(s, rec) ==
    /\ requests' = [requests EXCEPT ![s] = rec]
    /\ running' = IF rec.pc = "done" \/ Awaits(rec.pc) THEN "none" ELSE s

\* a request arrives on a connection that has none in flight
Receive ==
    /\ \E s \in Slots, op \in {"ask", "delete", "upload"}, id \in 1..MaxDocs :
         /\ requests[s].pc \in {"free", "done"}
         /\ op = "upload" => id = 1
         /\ requests' = [requests EXCEPT ![s] =
                [FreeSlot EXCEPT
                    !.op = op,
                    !.id = IF op = "upload" THEN 0 ELSE id,
                    !.pc = "received",
                    !.stored = op # "upload" /\ id \in DOMAIN documents,
                    !.cached = op # "upload" /\ id \in DOMAIN document_embeddings]]
    /\ UNCHANGED running
    /\ UNCHANGED <<chunkVars, retrVars, postVars, genVars, appVars>>

\* document = db.query(Document)...first(); if not document: 404
AskLookup ==
    /\ \E s \in Slots :
         LET r == requests[s]
         IN  /\ r.op = "ask" /\ r.pc = "received"
             /\ CanRun(s)
             /\ IF r.id \in DOMAIN documents
                THEN Advance(s, [r EXCEPT !.pc = "test",
                                          !.content = documents[r.id]])
                ELSE Advance(s, [r EXCEPT !.pc = "done", !.status = 404])
    /\ UNCHANGED <<chunkVars, retrVars, postVars, genVars, appVars>>

\* if request.document_id not in document_embeddings
AskTest ==
    /\ \E s \in Slots :
         LET r == requests[s]
         IN  /\ r.op = "ask" /\ r.pc = "test"
             /\ CanRun(s)
             /\ Advance(s, [r EXCEPT !.pc =
                    IF CacheMissing(r.id, document_embeddings)
                    THEN "chunk" ELSE "read_chunks"])
    /\ UNCHANGED <<chunkVars, retrVars, postVars, genVars, appVars>>

\* chunks = chunk_context(document.content); if not chunks: 500
AskChunk ==
    /\ \E s \in Slots :
         LET r == requests[s]
             list == ChunksOf[r.content]
         IN  /\ r.op = "ask" /\ r.pc = "chunk"
             /\ CanRun(s)
             /\ IF list = <<>>
                THEN Advance(s, [r EXCEPT !.pc = "done", !.status = 500])
                ELSE Advance(s, [r EXCEPT !.pc = "embed", !.chunks = list])
    /\ UNCHANGED <<chunkVars, retrVars, postVars, genVars, appVars>>

\* embeddings = generate_embeddings(chunks)
AskEmbed ==
    /\ \E s \in Slots :
         LET r == requests[s]
         IN  /\ r.op = "ask" /\ r.pc = "embed"
             /\ CanRun(s)
             /\ Advance(s, [r EXCEPT !.pc = "store",
                                     !.embeddings = generate_embeddings(r.chunks),
                                     !.embedded = 1])
    /\ UNCHANGED <<chunkVars, retrVars, postVars, genVars, appVars>>

\* document_embeddings[request.document_id] = {"chunks": ..., "embeddings": ...}
AskStore ==
    /\ \E s \in Slots :
         LET r == requests[s]
         IN  /\ r.op = "ask" /\ r.pc = "store"
             /\ CanRun(s)
             /\ document_embeddings' =
                    Put(document_embeddings, r.id,
                        CacheEntry(r.chunks, r.embeddings))
             /\ Advance(s, [r EXCEPT !.pc = "read_chunks"])
    /\ UNCHANGED <<documents, files, lastOp, ever_deleted>>
    /\ UNCHANGED <<chunkVars, retrVars, postVars, genVars>>

\* chunks = document_embeddings[request.document_id]["chunks"]; a missing key
\* is a KeyError, which the handler turns into 500
AskReadChunks ==
    /\ \E s \in Slots :
         LET r == requests[s]
         IN  /\ r.op = "ask" /\ r.pc = "read_chunks"
             /\ CanRun(s)
             /\ IF r.id \in DOMAIN document_embeddings
                THEN Advance(s, [r EXCEPT
                        !.pc = "read_embeddings",
                        !.chunks = document_embeddings[r.id].chunks])
                ELSE Advance(s, [r EXCEPT !.pc = "done", !.status = 500])
    /\ UNCHANGED <<chunkVars, retrVars, postVars, genVars, appVars>>

\* embeddings = document_embeddings[request.document_id]["embeddings"]
AskReadEmbeddings ==
    /\ \E s \in Slots :
         LET r == requests[s]
         IN  /\ r.op = "ask" /\ r.pc = "read_embeddings"
             /\ CanRun(s)
             /\ IF r.id \in DOMAIN document_embeddings
                THEN Advance(s, [r EXCEPT
                        !.pc = "answer",
                        !.embeddings = document_embeddings[r.id].embeddings])
                ELSE Advance(s, [r EXCEPT !.pc = "done", !.status = 500])
    /\ UNCHANGED <<chunkVars, retrVars, postVars, genVars, appVars>>

\* retrieve_relevant_chunks, generate_fluent_answer and the response, whose
\* status is what the slot keeps of it
AskAnswer ==
    /\ \E s \in Slots, q \in LoopQuestions :
         LET r == requests[s]
         IN  /\ r.op = "ask" /\ r.pc = "answer"
             /\ CanRun(s)
             /\ \E out \in retrieve_relevant_chunks(q, r.chunks, r.embeddings,
                                                    AskTopK) :
                  Advance(s, [r EXCEPT
                      !.pc = "done",
                      !.status = IF out.raised THEN 500 ELSE 200])
    /\ UNCHANGED <<chunkVars, retrVars, postVars, genVars, appVars>>

\* the body of delete_document
DeleteBody ==
    /\ \E s \in Slots :
         LET r == requests[s]
         IN  /\ r.op = "delete" /\ r.pc = "received"
             /\ CanRun(s)
             /\ IF r.id \in DOMAIN documents
                THEN /\ files' = RemoveFile(files, r.id)
                     /\ document_embeddings' =
                            Invalidate(r.id, document_embeddings)
                     /\ documents' = Drop(documents, r.id)
                     /\ Advance(s, [r EXCEPT !.pc = "done", !.status = 200])
                ELSE /\ UNCHANGED <<documents, document_embeddings, files>>
                     /\ Advance(s, [r EXCEPT !.pc = "done", !.status = 404])
    /\ UNCHANGED <<lastOp, ever_deleted>>
    /\ UNCHANGED <<chunkVars, retrVars, postVars, genVars>>

\* upload_pdf after the file is saved: the upload is refused, or the row is
\* stored and its text chunked and embedded
UploadBody ==
    /\ \E s \in Slots :
         LET r == requests[s]
             id == NextId(documents)
         IN  /\ r.op = "upload" /\ r.pc = "received"
             /\ CanRun(s)
             /\ \/ /\ UNCHANGED <<documents, document_embeddings, files>>
                   /\ Advance(s, [r EXCEPT !.pc = "done", !.status = 400])
                \/ /\ id <= MaxDocs
                   /\ \E text_content \in LoopTexts :
                        /\ documents' = Put(documents, id, text_content)
                        /\ document_embeddings' =
                               UploadStores(id, text_content,
                                            document_embeddings)
                        /\ files' = SaveFile(files, FileFor(documents))
                        /\ Advance(s, [r EXCEPT !.pc = "done", !.id = id,
                                                !.status = 200,
                                                !.content = text_content])
    /\ UNCHANGED <<lastOp, ever_deleted>>
    /\ UNCHANGED <<chunkVars, retrVars, postVars, genVars>>

\* the server process starts again: the cache is empty, the requests that
\* were in flight are gone, the table and the files stay
LoopRestart ==
    /\ document_embeddings # <<>>
    /\ document_embeddings' = <<>>
    /\ requests' = [s \in Slots |-> FreeSlot]
    /\ running' = "none"
    /\ UNCHANGED <<documents, files, lastOp, ever_deleted>>
    /\ UNCHANGED <<chunkVars, retrVars, postVars, genVars>>

LoopNext ==
    \/ Receive
    \/ AskLookup
    \/ AskTest
    \/ AskChunk
    \/ AskEmbed
    \/ AskStore
    \/ AskReadChunks
    \/ AskReadEmbeddings
    \/ AskAnswer
    \/ DeleteBody
    \/ UploadBody
    \/ LoopRestart

\* the server and its requests, several of them in flight at a time
SpecLoop == Init /\ [][LoopNext]_vars

\* an ask_question coroutine that is between its test of the cache and its
\* write of the entry
Building(s) ==
    requests[s].op = "ask" /\ requests[s].pc \in {"chunk", "embed", "store"}

\* C15: at no time are two requests building the entry of one document id,
\* and of two questions for one id that are in the slots together at most one
\* has chunked and embedded the document.
C15_OneBuildPerId ==
    \A s, t \in Slots :
        (s # t /\ requests[s].op = "ask" /\ requests[t].op = "ask"
               /\ requests[s].id = requests[t].id) =>
            /\ ~(Building(s) /\ Building(t))
            /\ requests[s].embedded + requests[t].embedded <= 1

\* two questions for a stored id without an entry are in flight: one is in
\* the middle of the build, the other has arrived and waits for the loop
C15_Witness ==
    /\ requests["r1"].op = "ask"
    /\ requests["r1"].pc = "embed"
    /\ requests["r2"].op = "ask"
    /\ requests["r2"].pc = "received"
    /\ requests["r2"].id = requests["r1"].id
    /\ requests["r2"].stored
    /\ ~requests["r2"].cached

\* C16: a question retrieves from the chunk list and the embedding list of
\* one build, the pair a build of the document's text on its own gives, and
\* the cache entry of a stored document is that pair, whole, however the
\* requests for the id arrive and run.
C16_BuildsNotCorrupted ==
    /\ \A s \in Slots :
          (requests[s].op = "ask" /\
           (requests[s].pc = "answer" \/ requests[s].status = 200)) =>
              CacheEntry(requests[s].chunks, requests[s].embeddings)
                  = EntryOf[requests[s].content]
    /\ \A id \in DOMAIN document_embeddings :
          /\ \E t \in StoredTexts : document_embeddings[id] = EntryOf[t]
          /\ id \in DOMAIN documents =>
                document_embeddings[id] = EntryOf[documents[id]]

\* two questions that both arrived when the stored document had no entry
\* have both been answered
C16_Witness ==
    /\ \A s \in Slots :
          /\ requests[s].op = "ask"
          /\ requests[s].id = 1
          /\ requests[s].stored
          /\ ~requests[s].cached
          /\ requests[s].status = 200
          /\ requests[s].content = ShortText
    /\ requests["r1"].embedded = 1
    /\ requests["r2"].embedded = 0
    /\ document_embeddings[1] = EntryOf[ShortText]

\* C18: every key of the cache is the id of a stored document, after every
\* step of every request, and a question for an id without a document ends
\* as 404 and leaves the cache as it is.
C18_CacheKeysAreDocuments ==
    [][/\ DOMAIN document_embeddings' \subseteq DOMAIN documents'
       /\ \A s \in Slots :
            (requests[s].op = "ask" /\ requests[s].pc = "received" /\
             requests'[s].op = "ask" /\ requests'[s].pc # "received" /\
             requests[s].id \notin DOMAIN documents) =>
                /\ requests'[s].status = 404
                /\ document_embeddings' = document_embeddings
      ]_vars

\* a question that arrived while its document was stored, answered 404
\* because a delete that was in flight with it ran first
C18_Witness ==
    /\ requests["r1"].op = "ask"
    /\ requests["r1"].stored
    /\ requests["r1"].status = 404
    /\ requests["r2"].op = "delete"
    /\ requests["r2"].id = requests["r1"].id
    /\ requests["r2"].stored
    /\ requests["r2"].status = 200
    /\ requests["r1"].id \notin DOMAIN document_embeddings

====
